---- MODULE Spec2Model ----
(***************************************************************************)
(* A model of the radius-rs dictionary code generator                      *)
(* (code-generator/src/main.rs): the dictionary parser, the main loop that *)
(* threads the symbol table and the list of generated modules through the  *)
(* sorted dictionary files, the accessor and enumeration emitters, and the *)
(* behaviour of the accessors the generator emits.                         *)
(***************************************************************************)
EXTENDS Integers, Sequences, FiniteSets, TLC

(***************************************************************************)
(* Bounds of the model.                                                    *)
(***************************************************************************)
MaxArgs == 3
MaxLines == 2
MaxPre == 2
MaxAdds == 2
MaxRecords == 3

(***************************************************************************)
(* Program constants.                                                      *)
(***************************************************************************)
ATTRIBUTE_KIND == "ATTRIBUTE"
VALUE_KIND == "VALUE"
RADIUS_VALUE_TYPE == "u32"
USER_PASSWORD_TYPE_OPT == "encrypt=1"
TUNNEL_PASSWORD_TYPE_OPT == "encrypt=2"
HAS_TAG_TYPE_OPT == "has_tag"
CONCAT_TYPE_OPT == "concat"
IFID_LENGTH == 8
CHUNK_SIZE == 253

\* Option<String>::None, and Option<usize> as a sequence of at most one number.
None == "None"
NoLength == <<>>
SomeLength(n) == <<n>>

(***************************************************************************)
(* Lexical helpers.  Tokens are strings; the regular expressions and the   *)
(* numeric parsers of the source are tabulated over the tokens that the    *)
(* dictionaries of the model use.                                          *)
(***************************************************************************)

\* A dictionary line: `lead` says that the line starts with whitespace,
\* `items` are its whitespace-separated non-empty tokens.
Line(lead, items) == [lead |-> lead, items |-> items]

\* Tokens whose first character is '#'.
HashTokens == {"#", "#comment"}

\* line_filter_re = ^(?:#.*|)$ : the empty line, or a line whose FIRST
\* character is '#'.
line_filter_re_is_match(line) ==
    /\ ~line.lead
    /\ \/ line.items = <<>>
       \/ line.items[1] \in HashTokens

\* ws_re.split(line): a line that starts with whitespace yields a leading
\* empty item; a whitespace-only line yields two empty items.
ws_re_split(line) ==
    IF line.lead
    THEN IF line.items = <<>> THEN <<"", "">> ELSE <<"">> \o line.items
    ELSE line.items

\* str::parse for the unsigned integers; -1 stands for a parse error.
DecimalValue(tok) ==
    CASE tok = "0" -> 0
      [] tok = "1" -> 1
      [] tok = "2" -> 2
      [] tok = "7" -> 7
      [] tok = "8" -> 8
      [] tok = "64" -> 64
      [] tok = "255" -> 255
      [] tok = "256" -> 256
      [] tok = "65535" -> 65535
      [] tok = "65536" -> 65536
      [] OTHER -> -1

parse_u8(tok) ==
    LET v == DecimalValue(tok) IN IF v >= 0 /\ v <= 255 THEN v ELSE -1

parse_u16(tok) ==
    LET v == DecimalValue(tok) IN IF v >= 0 /\ v <= 65535 THEN v ELSE -1

\* trailing_comment_re = \s*?#.+?$ replaced by "" in the fourth item.
trailing_comment_re_replace(tok) ==
    CASE tok = "1#c" -> "1"
      [] tok = "2#c" -> "2"
      [] OTHER -> tok

\* fixed_length_octets_re = ^octets\[(\d+)]$ : the captured length, or -1
\* when the token does not match; -2 when the token matches and its digits
\* (2^64 here) do not fit usize, so that parse::<usize>().unwrap() panics.
fixed_length_octets_re_captures(tok) ==
    CASE tok = "octets[0]" -> 0
      [] tok = "octets[2]" -> 2
      [] tok = "octets[8]" -> 8
      [] tok = "octets[18446744073709551616]" -> -2
      [] OTHER -> -1

\* items[4].split(',')
split_comma(tok) ==
    CASE tok = "encrypt=1" -> <<"encrypt=1">>
      [] tok = "encrypt=2" -> <<"encrypt=2">>
      [] tok = "has_tag" -> <<"has_tag">>
      [] tok = "concat" -> <<"concat">>
      [] tok = "encrypt=1,has_tag" -> <<"encrypt=1", "has_tag">>
      [] tok = "encrypt=2,has_tag" -> <<"encrypt=2", "has_tag">>
      [] tok = "has_tag,concat" -> <<"has_tag", "concat">>
      [] tok = "encrypt=1,encrypt=2" -> <<"encrypt=1", "encrypt=2">>
      [] tok = "encrypt=2,encrypt=1" -> <<"encrypt=2", "encrypt=1">>
      [] OTHER -> <<tok>>

\* RadiusAttributeValueType::from_str
from_str(s) ==
    CASE s = "string" -> "String"
      [] s = "octets" -> "Octets"
      [] s = "ipaddr" -> "IpAddr"
      [] s = "ipv4prefix" -> "Ipv4Prefix"
      [] s = "ipv6addr" -> "Ipv6Addr"
      [] s = "ipv6prefix" -> "Ipv6Prefix"
      [] s = "ifid" -> "IfId"
      [] s = "date" -> "Date"
      [] s = "integer" -> "Integer"
      [] s = "short" -> "Short"
      [] s = "vsa" -> "VSA"
      [] OTHER -> "Err"

RadiusAttributeValueType ==
    {"String", "UserPassword", "TunnelPassword", "Octets", "IpAddr",
     "Ipv4Prefix", "Ipv6Addr", "Ipv6Prefix", "IfId", "Date", "Integer",
     "Short", "VSA"}

Range(s) == {s[i] : i \in DOMAIN s}

(***************************************************************************)
(* parse_dict_file                                                         *)
(***************************************************************************)

\* The type options of an ATTRIBUTE line (items[4], when present).
TypeOpts(items) ==
    IF Len(items) >= 5 THEN Range(split_comma(items[5])) ELSE {}

\* The last encryption option of the list wins.
RECURSIVE EncryptionOf(_, _)
EncryptionOf(opts, enc) ==
    IF opts = <<>> THEN enc
    ELSE EncryptionOf(Tail(opts),
            IF Head(opts) = USER_PASSWORD_TYPE_OPT THEN "UserPassword"
            ELSE IF Head(opts) = TUNNEL_PASSWORD_TYPE_OPT THEN "TunnelPassword"
            ELSE enc)

encryption_type(items) ==
    IF Len(items) >= 5 THEN EncryptionOf(split_comma(items[5]), None) ELSE None

\* value_type_of with the encryption option applied to every wire type.
value_type_of_unguarded(items) ==
    LET t == from_str(items[4]) IN
    IF t # "Err"
    THEN IF encryption_type(items) # None
         THEN [ok |-> TRUE, typ |-> encryption_type(items), fixed |-> NoLength]
         ELSE [ok |-> TRUE, typ |-> t, fixed |-> NoLength]
    ELSE LET cap == fixed_length_octets_re_captures(items[4]) IN
         IF cap >= 0
         THEN [ok |-> TRUE, typ |-> "Octets", fixed |-> SomeLength(cap)]
         ELSE [ok |-> FALSE, typ |-> IF cap = -2 THEN "Panic" ELSE "Err",
               fixed |-> NoLength]

\* (typ, fixed_octets_length) of an ATTRIBUTE line, or the invalid-type error
\* ("Err"), or the panic of the unwrap() on the captured length ("Panic").
value_type_of(items) ==
    LET t == from_str(items[4]) IN
    IF t # "Err"
    THEN IF t = "String" /\ encryption_type(items) # None
         THEN [ok |-> TRUE, typ |-> encryption_type(items), fixed |-> NoLength]
         ELSE [ok |-> TRUE, typ |-> t, fixed |-> NoLength]
    ELSE LET cap == fixed_length_octets_re_captures(items[4]) IN
         IF cap >= 0
         THEN [ok |-> TRUE, typ |-> "Octets", fixed |-> SomeLength(cap)]
         ELSE [ok |-> FALSE, typ |-> IF cap = -2 THEN "Panic" ELSE "Err",
               fixed |-> NoLength]

\* One line of the dictionary: "skip", "attr", "value", "err" (an Err the
\* function returns) or "panic" (an unwrap() on a number that fails).
ParseLine(line) ==
    IF line_filter_re_is_match(line) THEN [kind |-> "skip"]
    ELSE LET items == ws_re_split(line) IN
    IF Len(items) < 4 THEN [kind |-> "err", err |-> "the number of items is lacked in a line"]
    ELSE IF items[1] = ATTRIBUTE_KIND
    THEN LET vt == value_type_of(items) IN
         IF vt.typ = "Panic" THEN [kind |-> "panic"]
         ELSE IF ~vt.ok THEN [kind |-> "err", err |-> "invalid type has come"]
         ELSE IF parse_u8(items[3]) < 0 THEN [kind |-> "panic"]
         ELSE [kind |-> "attr",
               attr |-> [name |-> items[2],
                         typ |-> parse_u8(items[3]),
                         value_type |-> vt.typ,
                         fixed_octets_length |-> vt.fixed,
                         concat_octets |-> CONCAT_TYPE_OPT \in TypeOpts(items),
                         has_tag |-> HAS_TAG_TYPE_OPT \in TypeOpts(items)]]
    ELSE IF items[1] = VALUE_KIND
    THEN LET v == parse_u16(trailing_comment_re_replace(items[4])) IN
         IF v < 0 THEN [kind |-> "panic"]
         ELSE [kind |-> "value", attribute_name |-> items[2],
               value |-> [name |-> items[3], value |-> v]]
    ELSE [kind |-> "err", err |-> "unexpected kind has come"]

\* PushValue that starts the group anew on every VALUE line.
PushValueAnew(map, attribute_name, radius_value) ==
    [n \in DOMAIN map \cup {attribute_name} |->
        IF n = attribute_name THEN <<radius_value>> ELSE map[n]]

\* The BTreeMap entry API of the VALUE branch.
PushValue(map, attribute_name, radius_value) ==
    IF attribute_name \in DOMAIN map
    THEN [map EXCEPT ![attribute_name] = Append(@, radius_value)]
    ELSE [n \in DOMAIN map \cup {attribute_name} |->
            IF n = attribute_name THEN <<radius_value>> ELSE map[n]]

EmptyMap == [n \in {} |-> <<>>]

\* ParseLines that goes on to the next line where a line is in error.
RECURSIVE ParseLinesLenient(_, _, _)
ParseLinesLenient(lines, radius_attributes, radius_attribute_to_values) ==
    IF lines = <<>>
    THEN [ok |-> TRUE, attrs |-> radius_attributes,
          values |-> radius_attribute_to_values]
    ELSE LET r == ParseLine(Head(lines)) IN
         CASE r.kind = "attr" ->
                ParseLinesLenient(Tail(lines), Append(radius_attributes, r.attr),
                                  radius_attribute_to_values)
           [] r.kind = "value" ->
                ParseLinesLenient(Tail(lines), radius_attributes,
                                  PushValue(radius_attribute_to_values,
                                            r.attribute_name, r.value))
           [] OTHER ->
                ParseLinesLenient(Tail(lines), radius_attributes,
                                  radius_attribute_to_values)

RECURSIVE ParseLines(_, _, _)
ParseLines(lines, radius_attributes, radius_attribute_to_values) ==
    IF lines = <<>>
    THEN [ok |-> TRUE, attrs |-> radius_attributes,
          values |-> radius_attribute_to_values]
    ELSE LET r == ParseLine(Head(lines)) IN
         CASE r.kind = "skip" ->
                ParseLines(Tail(lines), radius_attributes, radius_attribute_to_values)
           [] r.kind = "attr" ->
                ParseLines(Tail(lines), Append(radius_attributes, r.attr),
                           radius_attribute_to_values)
           [] r.kind = "value" ->
                ParseLines(Tail(lines), radius_attributes,
                           PushValue(radius_attribute_to_values,
                                     r.attribute_name, r.value))
           [] OTHER ->
                [ok |-> FALSE, attrs |-> <<>>, values |-> EmptyMap]

parse_dict_file(lines) == ParseLines(lines, <<>>, EmptyMap)

(***************************************************************************)
(* Identifier conventions (the inflector crate), tabulated over the names  *)
(* the dictionaries of the model use.                                      *)
(***************************************************************************)
to_pascal_case(s) ==
    CASE s = "Framed-Protocol" -> "FramedProtocol"
      [] s = "Tunnel-Type" -> "TunnelType"
      [] OTHER -> s

to_snake_case(s) ==
    CASE s = "Framed-Protocol" -> "framed_protocol"
      [] s = "Tunnel-Type" -> "tunnel_type"
      [] OTHER -> s

to_screaming_snake_case(s) ==
    CASE s = "Framed-Protocol" -> "FRAMED_PROTOCOL"
      [] s = "FramedProtocol" -> "FRAMED_PROTOCOL"
      [] s = "Tunnel-Type" -> "TUNNEL_TYPE"
      [] s = "TunnelType" -> "TUNNEL_TYPE"
      [] OTHER -> s

(***************************************************************************)
(* The emitters.  The text written to an artifact is a sequence of items,  *)
(* one per write_all of the source, in write order.                        *)
(***************************************************************************)

\* generate_header: the module documentation (the dictionary's own lines,
\* read a second time) and one import per module generated before.
generate_header(rfc_names, rfc_name, dict_file_lines) ==
    <<[item |-> "header", rfc_name |-> rfc_name, doc |-> dict_file_lines]>>
    \o [j \in 1..Len(rfc_names) |-> [item |-> "use", rfc_name |-> rfc_names[j]]]

\* generate_common_attribute_code: the type-code constant and the delete
\* operation.
generate_common_attribute_code(attr_name, type_identifier, type_value) ==
    [item |-> "common", attr |-> attr_name,
     type_identifier |-> type_identifier, type_value |-> type_value,
     method_identifier |-> to_snake_case(attr_name)]

\* One of the generate_*_attribute_code functions: the add / lookup /
\* lookup_all operations of a strategy.
Accessor(strategy, attr_name, method_identifier, type_identifier, value_type, fixed) ==
    [item |-> "accessor", strategy |-> strategy, attr |-> attr_name,
     method_identifier |-> method_identifier,
     type_identifier |-> type_identifier,
     value_type |-> value_type, fixed_octets_length |-> fixed]

\* Dispatch with the arm of the tagged tunnel password and the arm of the
\* tagged date exchanged for their untagged neighbours.
DispatchSwapped(attr, value_defined_attributes_set) ==
    CASE attr.value_type = "String" ->
            IF attr.has_tag THEN "tagged_string" ELSE "string"
      [] attr.value_type = "UserPassword" ->
            IF attr.has_tag THEN "unimplemented" ELSE "user_password"
      [] attr.value_type = "TunnelPassword" ->
            IF attr.has_tag THEN "unimplemented" ELSE "tunnel_password"
      [] attr.value_type = "Octets" ->
            IF attr.has_tag THEN "unimplemented"
            ELSE IF attr.fixed_octets_length # NoLength THEN "fixed_length_octets"
            ELSE IF attr.concat_octets THEN "concat_octets"
            ELSE "octets"
      [] attr.value_type = "IpAddr" ->
            IF attr.has_tag THEN "unimplemented" ELSE "ipaddr"
      [] attr.value_type = "Ipv4Prefix" ->
            IF attr.has_tag THEN "unimplemented" ELSE "ipv4_prefix"
      [] attr.value_type = "Ipv6Addr" ->
            IF attr.has_tag THEN "unimplemented" ELSE "ipv6addr"
      [] attr.value_type = "Ipv6Prefix" ->
            IF attr.has_tag THEN "unimplemented" ELSE "ipv6_prefix"
      [] attr.value_type = "IfId" ->
            IF attr.has_tag THEN "unimplemented" ELSE "fixed_length_octets"
      [] attr.value_type = "Date" -> "date"
      [] attr.value_type = "Integer" ->
            IF attr.name \in value_defined_attributes_set
            THEN IF attr.has_tag THEN "tagged_value_defined_integer"
                 ELSE "value_defined_integer"
            ELSE IF attr.has_tag THEN "tagged_integer" ELSE "integer"
      [] attr.value_type = "Short" ->
            IF attr.has_tag THEN "unimplemented" ELSE "short"
      [] attr.value_type = "VSA" -> "vsa"

\* Dispatch that does not look at the attributes with values.
DispatchGeneric(attr, value_defined_attributes_set) ==
    CASE attr.value_type = "String" ->
            IF attr.has_tag THEN "tagged_string" ELSE "string"
      [] attr.value_type = "UserPassword" ->
            IF attr.has_tag THEN "unimplemented" ELSE "user_password"
      [] attr.value_type = "TunnelPassword" ->
            IF attr.has_tag THEN "tunnel_password" ELSE "unimplemented"
      [] attr.value_type = "Octets" ->
            IF attr.has_tag THEN "unimplemented"
            ELSE IF attr.fixed_octets_length # NoLength THEN "fixed_length_octets"
            ELSE IF attr.concat_octets THEN "concat_octets"
            ELSE "octets"
      [] attr.value_type = "IpAddr" ->
            IF attr.has_tag THEN "unimplemented" ELSE "ipaddr"
      [] attr.value_type = "Ipv4Prefix" ->
            IF attr.has_tag THEN "unimplemented" ELSE "ipv4_prefix"
      [] attr.value_type = "Ipv6Addr" ->
            IF attr.has_tag THEN "unimplemented" ELSE "ipv6addr"
      [] attr.value_type = "Ipv6Prefix" ->
            IF attr.has_tag THEN "unimplemented" ELSE "ipv6_prefix"
      [] attr.value_type = "IfId" ->
            IF attr.has_tag THEN "unimplemented" ELSE "fixed_length_octets"
      [] attr.value_type = "Date" ->
            IF attr.has_tag THEN "unimplemented" ELSE "date"
      [] attr.value_type = "Integer" ->
            IF attr.has_tag THEN "tagged_integer" ELSE "integer"
      [] attr.value_type = "Short" ->
            IF attr.has_tag THEN "unimplemented" ELSE "short"
      [] attr.value_type = "VSA" -> "vsa"

\* The strategy generate_attribute_code dispatches to, "vsa" for the NOP,
\* or "unimplemented" where the source panics.
Dispatch(attr, value_defined_attributes_set) ==
    CASE attr.value_type = "String" ->
            IF attr.has_tag THEN "tagged_string" ELSE "string"
      [] attr.value_type = "UserPassword" ->
            IF attr.has_tag THEN "unimplemented" ELSE "user_password"
      [] attr.value_type = "TunnelPassword" ->
            IF attr.has_tag THEN "tunnel_password" ELSE "unimplemented"
      [] attr.value_type = "Octets" ->
            IF attr.has_tag THEN "unimplemented"
            ELSE IF attr.fixed_octets_length # NoLength THEN "fixed_length_octets"
            ELSE IF attr.concat_octets THEN "concat_octets"
            ELSE "octets"
      [] attr.value_type = "IpAddr" ->
            IF attr.has_tag THEN "unimplemented" ELSE "ipaddr"
      [] attr.value_type = "Ipv4Prefix" ->
            IF attr.has_tag THEN "unimplemented" ELSE "ipv4_prefix"
      [] attr.value_type = "Ipv6Addr" ->
            IF attr.has_tag THEN "unimplemented" ELSE "ipv6addr"
      [] attr.value_type = "Ipv6Prefix" ->
            IF attr.has_tag THEN "unimplemented" ELSE "ipv6_prefix"
      [] attr.value_type = "IfId" ->
            IF attr.has_tag THEN "unimplemented" ELSE "fixed_length_octets"
      [] attr.value_type = "Date" ->
            IF attr.has_tag THEN "unimplemented" ELSE "date"
      [] attr.value_type = "Integer" ->
            IF attr.name \in value_defined_attributes_set
            THEN IF attr.has_tag THEN "tagged_value_defined_integer"
                 ELSE "value_defined_integer"
            ELSE IF attr.has_tag THEN "tagged_integer" ELSE "integer"
      [] attr.value_type = "Short" ->
            IF attr.has_tag THEN "unimplemented" ELSE "short"
      [] attr.value_type = "VSA" -> "vsa"

\* generate_attribute_code: the common code is written first, then the
\* strategy's code; `ok` is FALSE where the source panics (after the common
\* code has been written).
generate_attribute_code(attr, value_defined_attributes_set) ==
    LET attr_name == attr.name
        type_identifier == <<to_screaming_snake_case(attr_name), "_TYPE">>
        method_identifier == to_snake_case(attr_name)
        common == generate_common_attribute_code(attr_name, type_identifier, attr.typ)
        strategy == Dispatch(attr, value_defined_attributes_set)
        value_type ==
            IF strategy \in {"value_defined_integer", "tagged_value_defined_integer"}
            THEN to_pascal_case(attr_name)
            ELSE IF strategy \in {"integer", "tagged_integer"} THEN RADIUS_VALUE_TYPE
            ELSE None
        fixed ==
            IF strategy # "fixed_length_octets" THEN NoLength
            ELSE IF attr.value_type = "IfId" THEN SomeLength(IFID_LENGTH)
            ELSE attr.fixed_octets_length
    IN  CASE strategy = "unimplemented" -> [ok |-> FALSE, code |-> <<common>>]
          [] strategy = "vsa" -> [ok |-> TRUE, code |-> <<common>>]
          [] OTHER ->
               [ok |-> TRUE,
                code |-> <<common,
                           Accessor(strategy, attr_name, method_identifier,
                                    type_identifier, value_type, fixed)>>]

\* generate_values_for_attribute_code without the write of the alias.
generate_values_without_alias(attr, values, maybe_rfc_name) ==
    LET type_name == to_pascal_case(attr) IN
    [j \in 1..Len(values) |->
          [item |-> "const", attr |-> attr,
           ident |-> <<to_screaming_snake_case(type_name),
                       to_screaming_snake_case(values[j].name)>>,
           qualifier |-> maybe_rfc_name,
           type_name |-> type_name,
           value |-> values[j].value]]

\* generate_values_for_attribute_code: a fresh alias when the symbol table
\* does not know the attribute, then one constant per value, qualified by
\* the module the symbol table names.
generate_values_for_attribute_code(attr, values, maybe_rfc_name) ==
    LET type_name == to_pascal_case(attr) IN
    (IF maybe_rfc_name = None
     THEN <<[item |-> "type", attr |-> attr, type_name |-> type_name,
             of |-> RADIUS_VALUE_TYPE]>>
     ELSE <<>>)
    \o [j \in 1..Len(values) |->
          [item |-> "const", attr |-> attr,
           ident |-> <<to_screaming_snake_case(type_name),
                       to_screaming_snake_case(values[j].name)>>,
           qualifier |-> maybe_rfc_name,
           type_name |-> type_name,
           value |-> values[j].value]]

\* The attribute names in the order a BTreeMap iterates them.
SortedNames == <<"Framed-Protocol", "Tunnel-Type">>

\* HashMap::get
Get(map, key) == IF key \in DOMAIN map THEN map[key] ELSE None

\* HashMap::insert: a new key is added, the value of a present key is
\* replaced.
Insert(map, key, value) ==
    [n \in DOMAIN map \cup {key} |-> IF n = key THEN value ELSE map[n]]

\* generate_values_code: every name of the value map, in key order.
RECURSIVE generate_values_code(_, _, _)
generate_values_code(names, attr_to_values_map, attr_name_to_rfc_name) ==
    IF names = <<>> THEN <<>>
    ELSE (IF Head(names) \in DOMAIN attr_to_values_map
          THEN generate_values_for_attribute_code(
                   Head(names), attr_to_values_map[Head(names)],
                   Get(attr_name_to_rfc_name, Head(names)))
          ELSE <<>>)
         \o generate_values_code(Tail(names), attr_to_values_map,
                                 attr_name_to_rfc_name)

(***************************************************************************)
(* The file system the generator runs on.                                  *)
(***************************************************************************)

\* The dictionary paths of the model, in ascending Path order.  Two of them
\* share the extension rfc2865, one has no extension, one does not exist.
PathOrder ==
    <<"a/dictionary.rfc2865", "a/dictionary.rfc2866", "b/dictionary",
      "b/dictionary.rfc2865", "b/missing.rfc2867">>

Paths == Range(PathOrder)

MissingPaths == {"b/missing.rfc2867"}

\* Path::cmp, as the position of the path in PathOrder.
PathRank(p) == CHOOSE r \in DOMAIN PathOrder : PathOrder[r] = p

\* Path::extension
extension(p) ==
    CASE p = "a/dictionary.rfc2865" -> "rfc2865"
      [] p = "a/dictionary.rfc2866" -> "rfc2866"
      [] p = "b/dictionary.rfc2865" -> "rfc2865"
      [] p = "b/missing.rfc2867" -> "rfc2867"
      [] OTHER -> None

\* The lines of the dictionaries.
AttrLine(name, typ, wire) == Line(FALSE, <<ATTRIBUTE_KIND, name, typ, wire>>)
AttrLineOpts(name, typ, wire, opts) ==
    Line(FALSE, <<ATTRIBUTE_KIND, name, typ, wire, opts>>)
ValueLine(attr, name, value) == Line(FALSE, <<VALUE_KIND, attr, name, value>>)
CommentLine == Line(FALSE, <<"#", "comment">>)
ShortLine == Line(FALSE, <<VALUE_KIND, "Framed-Protocol", "PPP">>)

\* The dictionaries of the run model.
RunDicts ==
    { <<AttrLine("Framed-Protocol", "7", "integer"),
        ValueLine("Framed-Protocol", "PPP", "1")>>,
      <<AttrLine("Framed-Protocol", "7", "integer")>>,
      <<ValueLine("Framed-Protocol", "SLIP", "2")>>,
      <<AttrLine("Tunnel-Type", "8", "string"),
        AttrLineOpts("Framed-Protocol", "7", "octets", "has_tag")>>,
      <<AttrLine("Framed-Protocol", "7", "string")>>,
      <<AttrLineOpts("Tunnel-Type", "64", "integer", "has_tag"),
        ValueLine("Tunnel-Type", "PPTP", "1")>>,
      <<CommentLine, ShortLine>> }

\* The ATTRIBUTE lines of the classifier model: every wire type, untagged
\* and tagged, with the encryption and concatenation options.
WireTypes ==
    {"string", "octets", "octets[8]", "ipaddr", "ipv4prefix", "ipv6addr",
     "ipv6prefix", "ifid", "date", "integer", "short", "vsa"}

ClassifyLines ==
    { AttrLine("Framed-Protocol", "7", t) : t \in WireTypes }
    \cup { AttrLineOpts("Framed-Protocol", "7", t, "has_tag") : t \in WireTypes }
    \cup { AttrLineOpts("Framed-Protocol", "7", "string", o) :
             o \in {"encrypt=1", "encrypt=2", "encrypt=1,has_tag",
                    "encrypt=2,has_tag"} }
    \cup { AttrLineOpts("Framed-Protocol", "7", "octets", o) :
             o \in {"concat", "has_tag,concat"} }
    \cup { ValueLine("Framed-Protocol", "PPP", "1"), ShortLine }

\* Lines that make the parse fail, one per kind of failure.
BadLines ==
    { ShortLine,
      Line(TRUE, <<>>),
      Line(TRUE, <<"#", "comment">>),
      Line(FALSE, <<"BEGIN-VENDOR", "Framed-Protocol", "7", "integer">>),
      AttrLine("Framed-Protocol", "7", "text"),
      AttrLine("Framed-Protocol", "256", "integer"),
      ValueLine("Framed-Protocol", "PPP", "65536") }

\* The dictionaries of the parse-error model.
ParseErrDicts ==
    { <<AttrLine("Framed-Protocol", "7", "integer"),
        ValueLine("Framed-Protocol", "PPP", "1")>>,
      <<AttrLineOpts("Framed-Protocol", "7", "octets", "has_tag")>> }
    \cup { <<b>> : b \in BadLines }
    \cup { <<AttrLine("Framed-Protocol", "7", "integer"), ShortLine>> }

(***************************************************************************)
(* main                                                                    *)
(***************************************************************************)
VARIABLES
    args,                           \* matches.free
    fs,                             \* the dictionary files: path -> lines
    pc,                             \* the position of main
    abort,                          \* why the run aborted
    dict_file_paths,                \* the sorted paths
    k,                              \* the position of the for loop
    radius_attributes,              \* parse result of the current file
    radius_attribute_to_values_map, \* parse result of the current file
    i,                              \* position of generate_attributes_code
    w,                              \* the open BufWriter, NoWriter when none
    rfc_names,
    attribute_name_to_rfc_name,
    outdir,                         \* the files of the output directory
    acc,                            \* the generated accessors in use
    packet,                         \* the message they act on
    adds,                           \* the number of add calls made
    last                            \* the last call and what it returned

\* The state of the generator, and the state of a program that uses the
\* generated accessors.
gvars == <<args, fs, pc, abort, dict_file_paths, k, radius_attributes,
           radius_attribute_to_values_map, i, w, rfc_names,
           attribute_name_to_rfc_name, outdir>>

pvars == <<acc, packet, adds, last>>

vars == <<gvars, pvars>>

\* A check of the first path only.
FirstRegular(paths, files) ==
    paths = <<>> \/ paths[1] \in DOMAIN files

\* The .filter of main: every path exists and is a regular file.
AllRegular(paths, files) ==
    \A j \in 1..Len(paths) : paths[j] \in DOMAIN files

\* dict_file_paths.sort()
Sorted(paths) == SortSeq(paths, LAMBDA p, q : PathRank(p) < PathRank(q))

\* An artifact: the run position that created it and the text written.
Artifact(src, code) == [src |-> src, code |-> code]

\* File::create: the file is created, or truncated when it exists.
Create(dir, rfc_name, src) ==
    [n \in DOMAIN dir \cup {rfc_name} |->
        IF n = rfc_name THEN Artifact(src, <<>>) ELSE dir[n]]

\* A flush of the BufWriter: the file holds what was written.
Flush(dir, writer) == [dir EXCEPT ![writer.rfc_name] = Artifact(writer.src, writer.code)]

Write(writer, code) == [writer EXCEPT !.code = @ \o code]

NoWriter == [rfc_name |-> None, src |-> 0, code |-> <<>>]

\* No accessor in use, no call made.
NoAccessor == [typ |-> 0, strategy |-> None, fixed_octets_length |-> NoLength]
NoCall == [op |-> None]

InitRun(argSet, dicts) ==
    /\ acc = NoAccessor
    /\ packet = <<>>
    /\ adds = 0
    /\ last = NoCall
    /\ args \in argSet
    /\ fs \in { f \in [Range(args) \ MissingPaths -> dicts] : TRUE }
    /\ pc = "start"
    /\ abort = None
    /\ dict_file_paths = <<>>
    /\ k = 1
    /\ radius_attributes = <<>>
    /\ radius_attribute_to_values_map = EmptyMap
    /\ i = 1
    /\ w = NoWriter
    /\ rfc_names = <<>>
    /\ attribute_name_to_rfc_name = EmptyMap
    /\ outdir = EmptyMap

SeqsUpTo(S, n) == UNION { [1..m -> S] : m \in 0..n }

Init == InitRun(SeqsUpTo(Paths, MaxArgs), RunDicts)

Abort(why) == pc' = "aborted" /\ abort' = why

\* main, lines 120-131: every path is checked, then the paths are sorted.
Validate ==
    /\ pc = "start"
    /\ UNCHANGED pvars
    /\ IF AllRegular(args, fs)
       THEN /\ dict_file_paths' = Sorted(args)
            /\ pc' = "loop"
            /\ abort' = abort
       ELSE /\ Abort("no such dictionary file")
            /\ UNCHANGED dict_file_paths
    /\ UNCHANGED <<args, fs, k, radius_attributes,
                   radius_attribute_to_values_map, i, w, rfc_names,
                   attribute_name_to_rfc_name, outdir>>

\* main, lines 136-138: the next file is parsed; an error aborts the run.
Parse ==
    /\ pc = "loop"
    /\ UNCHANGED pvars
    /\ k <= Len(dict_file_paths)
    /\ LET r == parse_dict_file(fs[dict_file_paths[k]]) IN
       IF r.ok
       THEN /\ radius_attributes' = r.attrs
            /\ radius_attribute_to_values_map' = r.values
            /\ pc' = "parsed"
            /\ abort' = abort
       ELSE /\ Abort("parse")
            /\ UNCHANGED <<radius_attributes, radius_attribute_to_values_map>>
    /\ UNCHANGED <<args, fs, dict_file_paths, k, i, w, rfc_names,
                   attribute_name_to_rfc_name, outdir>>

\* main, lines 144-145: the artifact named after the extension is created.
CreateArtifact ==
    /\ pc = "parsed"
    /\ UNCHANGED pvars
    /\ LET rfc_name == extension(dict_file_paths[k]) IN
       IF rfc_name = None
       THEN /\ Abort("no extension")
            /\ UNCHANGED <<w, outdir>>
       ELSE /\ outdir' = Create(outdir, rfc_name, k)
            /\ w' = [rfc_name |-> rfc_name, src |-> k, code |-> <<>>]
            /\ pc' = "header"
            /\ abort' = abort
    /\ UNCHANGED <<args, fs, dict_file_paths, k, radius_attributes,
                   radius_attribute_to_values_map, i, rfc_names,
                   attribute_name_to_rfc_name>>

\* main, line 147
Header ==
    /\ pc = "header"
    /\ UNCHANGED pvars
    /\ w' = Write(w, generate_header(rfc_names, w.rfc_name, fs[dict_file_paths[k]]))
    /\ i' = 1
    /\ pc' = "attributes"
    /\ UNCHANGED <<args, fs, abort, dict_file_paths, k, radius_attributes,
                   radius_attribute_to_values_map, rfc_names,
                   attribute_name_to_rfc_name, outdir>>

\* main, line 148: one turn of the loop of generate_attributes_code.  When
\* generate_attribute_code panics, a build that unwinds drops the BufWriter,
\* which flushes what was written; a build that aborts on panic leaves the
\* file as it is.
Attribute ==
    /\ pc = "attributes"
    /\ UNCHANGED pvars
    /\ i <= Len(radius_attributes)
    /\ LET r == generate_attribute_code(radius_attributes[i],
                                        DOMAIN radius_attribute_to_values_map)
       IN IF r.ok
          THEN /\ w' = Write(w, r.code)
               /\ i' = i + 1
               /\ UNCHANGED <<pc, abort, outdir>>
          ELSE /\ Abort("unimplemented")
               /\ w' = NoWriter
               /\ \/ outdir' = Flush(outdir, Write(w, r.code))
                  \/ outdir' = outdir
               /\ UNCHANGED i
    /\ UNCHANGED <<args, fs, dict_file_paths, k, radius_attributes,
                   radius_attribute_to_values_map, rfc_names,
                   attribute_name_to_rfc_name>>

\* main, lines 149-153
Values ==
    /\ pc = "attributes"
    /\ UNCHANGED pvars
    /\ i > Len(radius_attributes)
    /\ w' = Write(w, generate_values_code(SortedNames,
                                          radius_attribute_to_values_map,
                                          attribute_name_to_rfc_name))
    /\ pc' = "insert"
    /\ UNCHANGED <<args, fs, abort, dict_file_paths, k, radius_attributes,
                   radius_attribute_to_values_map, i, rfc_names,
                   attribute_name_to_rfc_name, outdir>>

\* The for loop of lines 155-157.
RECURSIVE InsertAll(_, _, _)
InsertAll(map, attrs, rfc_name) ==
    IF attrs = <<>> THEN map
    ELSE InsertAll(Insert(map, Head(attrs).name, rfc_name), Tail(attrs), rfc_name)

\* main, lines 155-158
InsertSymbols ==
    /\ pc = "insert"
    /\ UNCHANGED pvars
    /\ attribute_name_to_rfc_name' =
          InsertAll(attribute_name_to_rfc_name, radius_attributes, w.rfc_name)
    /\ rfc_names' = Append(rfc_names, w.rfc_name)
    /\ pc' = "close"
    /\ UNCHANGED <<args, fs, abort, dict_file_paths, k, radius_attributes,
                   radius_attribute_to_values_map, i, w, outdir>>

\* Close with the writer declared outside the loop: the turn ends with the
\* artifact still open and unflushed.
CloseLeavingOpen ==
    /\ pc = "close"
    /\ UNCHANGED pvars
    /\ k' = k + 1
    /\ pc' = "loop"
    /\ UNCHANGED <<args, fs, abort, dict_file_paths, radius_attributes,
                   radius_attribute_to_values_map, i, rfc_names,
                   attribute_name_to_rfc_name, w, outdir>>

\* main, line 159: the BufWriter goes out of scope at the end of the turn.
Close ==
    /\ pc = "close"
    /\ UNCHANGED pvars
    /\ outdir' = Flush(outdir, w)
    /\ w' = NoWriter
    /\ k' = k + 1
    /\ pc' = "loop"
    /\ UNCHANGED <<args, fs, abort, dict_file_paths, radius_attributes,
                   radius_attribute_to_values_map, i, rfc_names,
                   attribute_name_to_rfc_name>>

\* main returns when the paths are exhausted.
Finish ==
    /\ pc = "loop"
    /\ UNCHANGED pvars
    /\ k > Len(dict_file_paths)
    /\ pc' = "done"
    /\ UNCHANGED <<args, fs, abort, dict_file_paths, k, radius_attributes,
                   radius_attribute_to_values_map, i, w, rfc_names,
                   attribute_name_to_rfc_name, outdir>>

Next ==
    \/ Validate
    \/ Parse
    \/ CreateArtifact
    \/ Header
    \/ Attribute
    \/ Values
    \/ InsertSymbols
    \/ Close
    \/ Finish

Spec == Init /\ [][Next]_vars

\* One dictionary, of every sequence of at most MaxLines lines of the
\* classifier model.
InitClassify ==
    InitRun({<<"a/dictionary.rfc2865">>, <<"b/dictionary">>,
             <<"b/missing.rfc2867">>},
            SeqsUpTo(ClassifyLines, MaxLines))

SpecClassify == InitClassify /\ [][Next]_vars

\* The wire-type tokens and the option lists of the type model: the 11
\* keywords, octets[N], tokens that are neither, and option lists with one,
\* both or none of the encryption options.
TypeTokens ==
    WireTypes \cup {"octets[0]", "octets[2]", "octets[8]",
                    "octets[18446744073709551616]", "octets[]", "text"}

TypeOptTokens ==
    {"encrypt=1", "encrypt=2", "encrypt=1,encrypt=2", "encrypt=2,encrypt=1",
     "encrypt=1,has_tag", "has_tag", "concat", "encrypt=3"}

TypeLines ==
    { AttrLine("Framed-Protocol", "7", t) : t \in TypeTokens }
    \cup { AttrLineOpts("Framed-Protocol", "7", t, o) :
             t \in TypeTokens, o \in TypeOptTokens }

\* One dictionary of one ATTRIBUTE line of the type model, alone or followed
\* by a VALUE line.
InitTypes ==
    InitRun({<<"a/dictionary.rfc2865">>, <<"b/dictionary">>,
             <<"b/missing.rfc2867">>},
            { <<l>> : l \in TypeLines }
            \cup { <<l, ValueLine("Framed-Protocol", "PPP", "1")>> :
                     l \in TypeLines })

SpecTypes == InitTypes /\ [][Next]_vars

\* The dictionaries of the enumeration model: an attribute of the Integer
\* class or of another class, tagged or not, in a file with a VALUE line
\* that names it, with one that names another attribute, or with none.
EnumDicts ==
    { <<AttrLine("Framed-Protocol", "7", "integer"),
        ValueLine("Framed-Protocol", "PPP", "1")>>,
      <<ValueLine("Framed-Protocol", "PPP", "1"),
        AttrLine("Framed-Protocol", "7", "integer")>>,
      <<AttrLineOpts("Framed-Protocol", "7", "integer", "has_tag"),
        ValueLine("Framed-Protocol", "PPP", "1")>>,
      <<AttrLine("Framed-Protocol", "7", "integer")>>,
      <<AttrLineOpts("Framed-Protocol", "7", "integer", "has_tag")>>,
      <<AttrLine("Framed-Protocol", "7", "integer"),
        ValueLine("Tunnel-Type", "PPTP", "1")>>,
      <<AttrLine("Framed-Protocol", "7", "integer"),
        AttrLine("Tunnel-Type", "64", "integer"),
        ValueLine("Tunnel-Type", "PPTP", "1")>>,
      <<AttrLine("Framed-Protocol", "7", "string"),
        ValueLine("Framed-Protocol", "PPP", "1")>>,
      <<AttrLineOpts("Framed-Protocol", "7", "string", "has_tag"),
        ValueLine("Framed-Protocol", "PPP", "1")>>,
      <<AttrLine("Framed-Protocol", "7", "short"),
        ValueLine("Framed-Protocol", "PPP", "1")>>,
      <<AttrLine("Framed-Protocol", "7", "string")>>,
      <<ValueLine("Framed-Protocol", "SLIP", "2")>> }

\* One file or two files of the enumeration model.
InitEnum ==
    InitRun({<<"a/dictionary.rfc2865">>,
             <<"a/dictionary.rfc2865", "a/dictionary.rfc2866">>,
             <<"a/dictionary.rfc2866", "b/dictionary">>},
            EnumDicts)

SpecEnum == InitEnum /\ [][Next]_vars

\* The lines of the record model: declarations that share a name or a type
\* code, values of two attributes, a comment.
RecordLines ==
    { AttrLine("Framed-Protocol", "7", "integer"),
      AttrLine("Framed-Protocol", "8", "string"),
      AttrLine("Tunnel-Type", "7", "integer"),
      ValueLine("Framed-Protocol", "PPP", "1"),
      ValueLine("Framed-Protocol", "SLIP", "2"),
      ValueLine("Tunnel-Type", "PPTP", "1"),
      CommentLine }

\* One dictionary of at most MaxRecords lines of the record model.
InitRecords ==
    InitRun({<<"a/dictionary.rfc2865">>, <<"b/dictionary">>,
             <<"b/missing.rfc2867">>},
            SeqsUpTo(RecordLines, MaxRecords))

SpecRecords == InitRecords /\ [][Next]_vars

\* Runs over dictionaries that fail to parse in each of the ways the parser
\* can fail.
InitParseErr ==
    InitRun(SeqsUpTo(Paths \ {"b/dictionary"}, MaxArgs), ParseErrDicts)

SpecParseErr == InitParseErr /\ [][Next]_vars

(***************************************************************************)
(* The generated accessors at work on a message.  Packet and the AVP codec *)
(* are the library the generated code calls.                               *)
(***************************************************************************)

\* Option and Result.
Absent == <<>>
Some(x) == <<x>>
Ok(x) == [ok |-> TRUE, v |-> x]
Err == [ok |-> FALSE]

\* Packet::add, Packet::extend, Packet::lookup, Packet::lookup_all and
\* Packet::delete.
packet_add(p, avp) == Append(p, avp)
packet_extend(p, avps) == p \o avps
packet_lookup_all(p, typ) == SelectSeq(p, LAMBDA avp : avp.typ = typ)
packet_lookup(p, typ) ==
    IF packet_lookup_all(p, typ) = <<>> THEN Absent
    ELSE Some(packet_lookup_all(p, typ)[1])
packet_delete(p, typ) == SelectSeq(p, LAMBDA avp : avp.typ # typ)

\* The codec: a constructor AVP::from_<kind> and its decoder
\* AVP::encode_<kind>, which inverts it.
AVP_from(kind, typ, value) == [typ |-> typ, kind |-> kind, value |-> value]
AVP_encode(kind, avp) == IF avp.kind = kind THEN Ok(avp.value) ELSE Err

\* AVP::encode_bytes cannot fail: it returns the payload.
AVP_encode_bytes(avp) == avp.value

\* The codec kind each strategy's generated code constructs and decodes.
KindOf(strategy) ==
    CASE strategy = "string" -> "string"
      [] strategy = "tagged_string" -> "tagged_string"
      [] strategy = "user_password" -> "user_password"
      [] strategy = "tunnel_password" -> "tunnel_password"
      [] strategy \in {"octets", "concat_octets", "fixed_length_octets"} -> "bytes"
      [] strategy = "ipaddr" -> "ipv4"
      [] strategy = "ipv4_prefix" -> "ipv4_prefix"
      [] strategy = "ipv6addr" -> "ipv6"
      [] strategy = "ipv6_prefix" -> "ipv6_prefix"
      [] strategy = "date" -> "date"
      [] strategy \in {"integer", "value_defined_integer"} -> "u32"
      [] strategy \in {"tagged_integer", "tagged_value_defined_integer"} -> "tagged_u32"
      [] strategy = "short" -> "u16"

\* The strategies whose codec constructor returns a Result.
FallibleConstructors ==
    {"user_password", "tunnel_password", "ipv4_prefix", "ipv6_prefix"}

ByteStrategies == {"octets", "concat_octets", "fixed_length_octets"}

\* chunks that hands the whole slice over as one chunk.
chunks_unsplit(value, n) == <<value>>

\* slice::chunks(n): consecutive chunks of n elements, the last one shorter
\* when the length is not a multiple of n; none for the empty slice.
RECURSIVE chunks(_, _)
chunks(value, n) ==
    IF value = <<>> THEN <<>>
    ELSE IF Len(value) <= n THEN <<value>>
    ELSE <<SubSeq(value, 1, n)>> \o chunks(SubSeq(value, n + 1, Len(value)), n)

RECURSIVE Concat(_)
Concat(seqs) == IF seqs = <<>> THEN <<>> ELSE Head(seqs) \o Concat(Tail(seqs))

\* The generated add_<method> without the length check of the fixed-length
\* octets.
add_accessor_unchecked(a, p, value, codec_ok) ==
    CASE a.strategy = "concat_octets" ->
            [packet |-> packet_extend(p,
                 [n \in DOMAIN chunks(value, CHUNK_SIZE) |->
                     AVP_from("bytes", a.typ, chunks(value, CHUNK_SIZE)[n])]),
             ret |-> Ok(<<>>)]
      [] a.strategy \in FallibleConstructors ->
            IF codec_ok
            THEN [packet |-> packet_add(p, AVP_from(KindOf(a.strategy), a.typ, value)),
                  ret |-> Ok(<<>>)]
            ELSE [packet |-> p, ret |-> Err]
      [] OTHER ->
            [packet |-> packet_add(p, AVP_from(KindOf(a.strategy), a.typ, value)),
             ret |-> Ok(<<>>)]

\* The generated add_<method>.  `codec_ok` is the outcome of a constructor
\* that can fail.  The result is the new message and what add returned.
add_accessor(a, p, value, codec_ok) ==
    CASE a.strategy = "concat_octets" ->
            [packet |-> packet_extend(p,
                 [n \in DOMAIN chunks(value, CHUNK_SIZE) |->
                     AVP_from("bytes", a.typ, chunks(value, CHUNK_SIZE)[n])]),
             ret |-> Ok(<<>>)]
      [] a.strategy = "fixed_length_octets" ->
            IF Len(value) # a.fixed_octets_length[1]
            THEN [packet |-> p,
                  ret |-> [ok |-> FALSE,
                           expected |-> a.fixed_octets_length[1],
                           actual |-> Len(value)]]
            ELSE [packet |-> packet_add(p, AVP_from("bytes", a.typ, value)),
                  ret |-> Ok(<<>>)]
      [] a.strategy \in FallibleConstructors ->
            IF codec_ok
            THEN [packet |-> packet_add(p, AVP_from(KindOf(a.strategy), a.typ, value)),
                  ret |-> Ok(<<>>)]
            ELSE [packet |-> p, ret |-> Err]
      [] OTHER ->
            [packet |-> packet_add(p, AVP_from(KindOf(a.strategy), a.typ, value)),
             ret |-> Ok(<<>>)]

\* The generated lookup_<method> with the lookup of the concatenated octets
\* written like that of the plain octets.
lookup_accessor_first(a, p) ==
    CASE a.strategy \in ByteStrategies ->
            IF packet_lookup(p, a.typ) = Absent THEN Absent
            ELSE Some(AVP_encode_bytes(packet_lookup(p, a.typ)[1]))
      [] OTHER ->
            IF packet_lookup(p, a.typ) = Absent THEN Absent
            ELSE Some(AVP_encode(KindOf(a.strategy), packet_lookup(p, a.typ)[1]))

\* The generated lookup_<method> with the concatenated octets' lookup
\* folding over the instances without asking whether there are any.
lookup_accessor_no_sentinel(a, p) ==
    CASE a.strategy = "concat_octets" ->
            LET avps == packet_lookup_all(p, a.typ) IN
            Some(Concat([n \in DOMAIN avps |-> AVP_encode_bytes(avps[n])]))
      [] a.strategy \in {"octets", "fixed_length_octets"} ->
            IF packet_lookup(p, a.typ) = Absent THEN Absent
            ELSE Some(AVP_encode_bytes(packet_lookup(p, a.typ)[1]))
      [] OTHER ->
            IF packet_lookup(p, a.typ) = Absent THEN Absent
            ELSE Some(AVP_encode(KindOf(a.strategy), packet_lookup(p, a.typ)[1]))

\* The generated lookup_<method>.
lookup_accessor(a, p) ==
    CASE a.strategy = "concat_octets" ->
            LET avps == packet_lookup_all(p, a.typ) IN
            IF avps = <<>> THEN Absent
            ELSE Some(Concat([n \in DOMAIN avps |-> AVP_encode_bytes(avps[n])]))
      [] a.strategy \in {"octets", "fixed_length_octets"} ->
            IF packet_lookup(p, a.typ) = Absent THEN Absent
            ELSE Some(AVP_encode_bytes(packet_lookup(p, a.typ)[1]))
      [] OTHER ->
            IF packet_lookup(p, a.typ) = Absent THEN Absent
            ELSE Some(AVP_encode(KindOf(a.strategy), packet_lookup(p, a.typ)[1]))

\* The generated lookup_all_<method>; the concatenated octets have none.
RECURSIVE CollectResults(_)
CollectResults(results) ==
    IF results = <<>> THEN Ok(<<>>)
    ELSE IF ~Head(results).ok THEN Err
    ELSE LET rest == CollectResults(Tail(results)) IN
         IF rest.ok THEN Ok(<<Head(results).v>> \o rest.v) ELSE Err

lookup_all_accessor(a, p) ==
    LET avps == packet_lookup_all(p, a.typ) IN
    IF a.strategy \in ByteStrategies
    THEN [n \in DOMAIN avps |-> AVP_encode_bytes(avps[n])]
    ELSE CollectResults([n \in DOMAIN avps |-> AVP_encode(KindOf(a.strategy), avps[n])])

\* The generated delete_<method>.
delete_accessor(a, p) == packet_delete(p, a.typ)

\* A byte buffer of a length, its content set by a seed.
Bytes(len, seed) == [n \in 1..len |-> (n + seed) % 256]

BufLens == {0, 2, 8, 253, 254, 507}

Tags == {Absent, Some(1)}

\* The values the add of a strategy takes.
ValuesOf(strategy) ==
    CASE strategy \in ByteStrategies \cup
                      {"user_password", "ipv4_prefix", "ipv6_prefix"} ->
            { Bytes(len, 0) : len \in BufLens }
      [] strategy = "tunnel_password" ->
            { [tag |-> t, value |-> Bytes(len, 0)] : t \in Tags, len \in {0, 2} }
      [] strategy = "tagged_string" ->
            { [tag |-> t, value |-> v] : t \in Tags, v \in {"", "text"} }
      [] strategy \in {"tagged_integer", "tagged_value_defined_integer"} ->
            { [tag |-> t, value |-> v] : t \in Tags, v \in {0, 1} }
      [] strategy = "string" -> {"", "text"}
      [] strategy = "ipaddr" -> {"192.0.2.1", "192.0.2.2"}
      [] strategy = "ipv6addr" -> {"2001:db8::1", "2001:db8::2"}
      [] strategy = "date" -> {0, 1}
      [] strategy \in {"integer", "value_defined_integer"} -> {0, 1, 65536}
      [] strategy = "short" -> {0, 1, 65535}

\* The instances a message may hold before the accessors are used: of the
\* attribute's own type code, and of another type code.
OtherType(a) == (a.typ + 1) % 256

PriorValues(strategy) ==
    CASE strategy \in ByteStrategies \cup
                      {"user_password", "ipv4_prefix", "ipv6_prefix"} ->
            { Bytes(len, 1) : len \in {2, 8} }
      [] strategy = "tunnel_password" ->
            { [tag |-> Some(1), value |-> Bytes(len, 1)] : len \in {0, 2} }
      [] strategy = "tagged_string" ->
            { [tag |-> Some(1), value |-> v] : v \in {"", "text"} }
      [] strategy \in {"tagged_integer", "tagged_value_defined_integer"} ->
            { [tag |-> Some(1), value |-> v] : v \in {0, 1} }
      [] strategy = "string" -> {"", "prior"}
      [] strategy = "ipaddr" -> {"192.0.2.1", "192.0.2.3"}
      [] strategy = "ipv6addr" -> {"2001:db8::1", "2001:db8::3"}
      [] strategy = "date" -> {0, 2}
      [] strategy \in {"integer", "value_defined_integer"} -> {0, 2}
      [] strategy = "short" -> {0, 2}

PriorAvps(a) ==
    { AVP_from(KindOf(a.strategy), a.typ, v) : v \in PriorValues(a.strategy) }
    \cup { AVP_from("bytes", OtherType(a), Bytes(2, 7)) }

\* The declarations whose accessors are put to work: one line per strategy.
PacketLines ==
    (ClassifyLines \ {ShortLine})
    \cup { AttrLine("Framed-Protocol", "7", "octets[2]") }

\* The accessors generate_attribute_code emits for a declaration.
AccessorFor(line, value_defined_attributes_set) ==
    LET r == generate_attribute_code(ParseLine(line).attr,
                                     value_defined_attributes_set)
    IN  [typ |-> r.code[1].type_value,
         strategy |-> r.code[2].strategy,
         fixed_octets_length |-> r.code[2].fixed_octets_length]

\* A declaration generates accessors when it parses, its generation does
\* not fail and it is not a VSA.
Generates(line, value_defined_attributes_set) ==
    /\ ParseLine(line).kind = "attr"
    /\ generate_attribute_code(ParseLine(line).attr,
                               value_defined_attributes_set).ok
    /\ Len(generate_attribute_code(ParseLine(line).attr,
                                   value_defined_attributes_set).code) = 2

Accessors ==
    { AccessorFor(c[1], c[2]) :
         c \in { d \in PacketLines \X {{}, {"Framed-Protocol"}} :
                    Generates(d[1], d[2]) } }

InitPacket ==
    /\ args = <<>>
    /\ fs = EmptyMap
    /\ pc = "generated"
    /\ abort = None
    /\ dict_file_paths = <<>>
    /\ k = 1
    /\ radius_attributes = <<>>
    /\ radius_attribute_to_values_map = EmptyMap
    /\ i = 1
    /\ w = NoWriter
    /\ rfc_names = <<>>
    /\ attribute_name_to_rfc_name = EmptyMap
    /\ outdir = EmptyMap
    /\ acc \in Accessors
    /\ packet \in SeqsUpTo(PriorAvps(acc), MaxPre)
    /\ adds = 0
    /\ last = NoCall

\* A call of add_<method>.
Add ==
    /\ pc = "generated"
    /\ adds < MaxAdds
    /\ \E value \in ValuesOf(acc.strategy), codec_ok \in BOOLEAN :
          LET r == add_accessor(acc, packet, value, codec_ok) IN
          /\ packet' = r.packet
          /\ last' = [op |-> "add", arg |-> value, ret |-> r.ret,
                      before |-> lookup_accessor(acc, packet),
                      held |-> Len(packet)]
    /\ adds' = adds + 1
    /\ UNCHANGED <<gvars, acc>>

\* A call of lookup_<method>.
Lookup ==
    /\ pc = "generated"
    /\ last' = [op |-> "lookup", ret |-> lookup_accessor(acc, packet)]
    /\ UNCHANGED <<gvars, acc, packet, adds>>

\* A call of lookup_all_<method>.
LookupAll ==
    /\ pc = "generated"
    /\ acc.strategy # "concat_octets"
    /\ last' = [op |-> "lookup_all", ret |-> lookup_all_accessor(acc, packet)]
    /\ UNCHANGED <<gvars, acc, packet, adds>>

\* A call of delete_<method>.
Delete ==
    /\ pc = "generated"
    /\ packet' = delete_accessor(acc, packet)
    /\ last' = [op |-> "delete"]
    /\ UNCHANGED <<gvars, acc, adds>>

NextPacket ==
    \/ Add
    \/ Lookup
    \/ LookupAll
    \/ Delete

SpecPacket == InitPacket /\ [][NextPacket]_vars

(***************************************************************************)
(* Properties of the run.                                                  *)
(***************************************************************************)

\* The items of one kind of a text.
Items(code, kind) == SelectSeq(code, LAMBDA it : it.item = kind)

\* The lines of the file processed at position j.
LinesAt(j) == fs[dict_file_paths[j]]

\* The lines of a dictionary that start with a kind, read off the text.
KindLines(lines, kind) ==
    SelectSeq(lines, LAMBDA l : ~l.lead /\ Len(l.items) >= 4 /\ l.items[1] = kind)

AttrNames(lines) == { l.items[2] : l \in Range(KindLines(lines, ATTRIBUTE_KIND)) }
ValueNames(lines) == { l.items[2] : l \in Range(KindLines(lines, VALUE_KIND)) }

\* The text written so far for the file at position j: the open writer, or
\* the artifact that position j created, when it has not been replaced.
HasCode(j) ==
    \/ w.src = j
    \/ \E id \in DOMAIN outdir : outdir[id].src = j /\ outdir[id].code # <<>>

CodeOf(j) ==
    IF w.src = j THEN w.code
    ELSE outdir[CHOOSE id \in DOMAIN outdir : outdir[id].src = j].code

\* The values of position j have been emitted.
ValuesDone(j) ==
    /\ pc # "start"
    /\ j \in 1..Len(dict_file_paths)
    /\ \/ j < k
       \/ j = k /\ pc \in {"insert", "close"}
    /\ HasCode(j)

\* C1: generation of an attribute fails exactly when its (valueClass,
\* hasTag) pair is in the fixed list; the attributes generated before
\* the failing one are all outside the list, and the artifact holds the
\* add/lookup accessors of those only.
UnsupportedPairs ==
    { <<"UserPassword", TRUE>>, <<"TunnelPassword", FALSE>>,
      <<"Octets", TRUE>>, <<"IpAddr", TRUE>>, <<"Ipv4Prefix", TRUE>>,
      <<"Ipv6Addr", TRUE>>, <<"Ipv6Prefix", TRUE>>, <<"IfId", TRUE>>,
      <<"Date", TRUE>>, <<"Short", TRUE>> }

IsUnsupported(a) == <<a.value_type, a.has_tag>> \in UnsupportedPairs

C1_FailsExactlyOnUnsupported ==
    /\ pc \in {"attributes", "insert", "close"} =>
          /\ \A j \in 1..(i - 1) : ~IsUnsupported(radius_attributes[j])
          /\ Len(Items(w.code, "accessor")) =
                Cardinality({j \in 1..(i - 1) : radius_attributes[j].value_type # "VSA"})
    /\ (pc = "aborted" /\ abort = "unimplemented") =>
          /\ IsUnsupported(radius_attributes[i])
          /\ \A j \in 1..(i - 1) : ~IsUnsupported(radius_attributes[j])
          /\ \A id \in DOMAIN outdir :
                outdir[id].src = k =>
                   Len(Items(outdir[id].code, "accessor")) <=
                      Cardinality({j \in 1..(i - 1) :
                                     radius_attributes[j].value_type # "VSA"})

C1_Witness ==
    /\ pc = "aborted"
    /\ abort = "unimplemented"
    /\ i = 2
    /\ radius_attributes[1].value_type = "TunnelPassword"
    /\ radius_attributes[2].value_type = "UserPassword"

\* C2: at the end of a run, successful or aborted, every artifact of the
\* output directory is the complete artifact of its dictionary: the header,
\* the code of every attribute and the constant of every value.
Complete(artifact) ==
    LET lines == LinesAt(artifact.src) IN
    /\ Len(Items(artifact.code, "header")) = 1
    /\ Len(Items(artifact.code, "common")) = Len(KindLines(lines, ATTRIBUTE_KIND))
    /\ Len(Items(artifact.code, "const")) = Len(KindLines(lines, VALUE_KIND))

C2_NoPartialOutput ==
    pc \in {"done", "aborted"} =>
       \A id \in DOMAIN outdir : Complete(outdir[id])

\* C3: when the file at position j does not parse, the run never gets past
\* the parse of j, no artifact is created by j or by a later position, and
\* the abort leaves the output directory as the earlier files wrote it.
BadLine(l) ==
    /\ ~line_filter_re_is_match(l)
    /\ LET items == ws_re_split(l) IN
       \/ Len(items) < 4
       \/ /\ Len(items) >= 4
          /\ \/ items[1] \notin {ATTRIBUTE_KIND, VALUE_KIND}
             \/ /\ items[1] = ATTRIBUTE_KIND
                /\ \/ from_str(items[4]) = "Err"
                      /\ fixed_length_octets_re_captures(items[4]) < 0
                   \/ parse_u8(items[3]) < 0
             \/ /\ items[1] = VALUE_KIND
                /\ parse_u16(trailing_comment_re_replace(items[4])) < 0

HasBadLine(lines) == \E n \in DOMAIN lines : BadLine(lines[n])

C3_State ==
    pc # "start" =>
       \A j \in 1..Len(dict_file_paths) :
          HasBadLine(LinesAt(j)) =>
             /\ k <= j
             /\ k = j => pc \in {"loop", "aborted"} /\ w = NoWriter
             /\ \A id \in DOMAIN outdir :
                   /\ outdir[id].src < j
                   /\ outdir[id].src < k => Complete(outdir[id])

C3_Step ==
    (pc' = "aborted" /\ abort' = "parse") => outdir' = outdir

C3_ParseFailureWritesNothing == []C3_State /\ [][C3_Step]_vars

C3_Witness ==
    /\ pc = "aborted"
    /\ abort = "parse"
    /\ k = 2
    /\ Len(dict_file_paths) = 3
    /\ DOMAIN outdir # {}
    /\ Len(ws_re_split(LinesAt(2)[1])) < 4

\* C4: when any positional path is missing, wherever it stands among the
\* arguments, the run aborts before a dictionary is parsed and before an
\* artifact is created.
C4_MissingPathAbortsFirst ==
    (\E j \in DOMAIN args : args[j] \in MissingPaths) =>
       /\ pc \in {"start", "aborted"}
       /\ pc = "aborted" => abort = "no such dictionary file"
       /\ dict_file_paths = <<>>
       /\ radius_attributes = <<>>
       /\ radius_attribute_to_values_map = EmptyMap
       /\ w = NoWriter
       /\ outdir = EmptyMap

C4_Witness ==
    /\ pc = "aborted"
    /\ Len(args) = 3
    /\ args[1] \notin MissingPaths
    /\ args[2] \notin MissingPaths
    /\ args[3] \in MissingPaths

\* C5: when a file at position a declares X and a file at a later
\* position b has VALUE lines for X, every constant of X in the artifact of
\* b is qualified by the identifier of a, and b defines no alias for X.
C5_QualifiedByDeclaringFile ==
    \A b \in 1..Len(dict_file_paths) : \A a \in 1..(b - 1) :
       ValuesDone(b) =>
          \A X \in AttrNames(LinesAt(a)) \cap ValueNames(LinesAt(b)) :
             /\ \A n \in DOMAIN CodeOf(b) :
                   (CodeOf(b)[n].item = "const" /\ CodeOf(b)[n].attr = X) =>
                      CodeOf(b)[n].qualifier = extension(dict_file_paths[a])
             /\ \A n \in DOMAIN CodeOf(b) :
                   ~(CodeOf(b)[n].item = "type" /\ CodeOf(b)[n].attr = X)

\* C6: when the file at position j has VALUE lines for a name X that no
\* file before j declares, the artifact of j defines exactly one alias for
\* X, over u32, and every constant of X is typed against the unqualified
\* alias.
DeclaredBefore(X, j) == \E m \in 1..(j - 1) : X \in AttrNames(LinesAt(m))

AliasesOf(code, X) ==
    SelectSeq(code, LAMBDA it : it.item = "type" /\ it.attr = X)

ConstsOf(code, X) ==
    SelectSeq(code, LAMBDA it : it.item = "const" /\ it.attr = X)

ValueLinesOf(lines, X) ==
    SelectSeq(KindLines(lines, VALUE_KIND), LAMBDA l : l.items[2] = X)

C6_FreshAliasWhenNotDeclaredBefore ==
    \A j \in 1..Len(dict_file_paths) :
       ValuesDone(j) =>
          \A X \in ValueNames(LinesAt(j)) :
             ~DeclaredBefore(X, j) =>
                /\ Len(AliasesOf(CodeOf(j), X)) = 1
                /\ AliasesOf(CodeOf(j), X)[1].of = RADIUS_VALUE_TYPE
                /\ AliasesOf(CodeOf(j), X)[1].type_name = to_pascal_case(X)
                /\ Len(ConstsOf(CodeOf(j), X)) = Len(ValueLinesOf(LinesAt(j), X))
                /\ \A n \in DOMAIN ConstsOf(CodeOf(j), X) :
                      /\ ConstsOf(CodeOf(j), X)[n].qualifier = None
                      /\ ConstsOf(CodeOf(j), X)[n].type_name = to_pascal_case(X)

C6_Witness ==
    /\ pc = "done"
    /\ Len(dict_file_paths) = 2
    /\ "Framed-Protocol" \in ValueNames(LinesAt(1)) \ AttrNames(LinesAt(1))
    /\ "Framed-Protocol" \in ValueNames(LinesAt(2)) \cap AttrNames(LinesAt(2))
    /\ HasCode(1) /\ HasCode(2)
    /\ Len(AliasesOf(CodeOf(1), "Framed-Protocol")) = 1
    /\ Len(AliasesOf(CodeOf(2), "Framed-Protocol")) = 1

\* C7: the symbol table is append-only: a name that is mapped keeps its
\* file identifier in every later state.
C7_SymbolTableAppendOnly ==
    [][\A n \in DOMAIN attribute_name_to_rfc_name :
          /\ n \in DOMAIN attribute_name_to_rfc_name'
          /\ attribute_name_to_rfc_name'[n] = attribute_name_to_rfc_name[n]]_vars

\* C8: a successful run over n distinct input paths leaves n artifacts,
\* one written by each input.
NoDuplicates(seq) ==
    \A m, n \in DOMAIN seq : m # n => seq[m] # seq[n]

C8_OneArtifactPerInput ==
    (pc = "done" /\ NoDuplicates(args)) =>
       /\ Cardinality(DOMAIN outdir) = Len(dict_file_paths)
       /\ \A j \in 1..Len(dict_file_paths) :
             \E id \in DOMAIN outdir : outdir[id].src = j

\* C9: the artifact of position j imports exactly the identifiers of the
\* positions 1..j-1, in order, and neither its own identifier nor that of
\* a later position.
Imports(code) ==
    LET uses == Items(code, "use") IN [n \in DOMAIN uses |-> uses[n].rfc_name]

C9_ImportsExactlyEarlierFiles ==
    pc # "start" =>
       \A j \in 1..Len(dict_file_paths) :
          (HasCode(j) /\ Items(CodeOf(j), "header") # <<>>) =>
             /\ Imports(CodeOf(j)) =
                   [m \in 1..(j - 1) |-> extension(dict_file_paths[m])]
             /\ extension(dict_file_paths[j]) \notin Range(Imports(CodeOf(j)))
             /\ \A m \in (j + 1)..Len(dict_file_paths) :
                   extension(dict_file_paths[m]) \notin Range(Imports(CodeOf(j)))

(***************************************************************************)
(* Properties of the generated accessors.                                  *)
(***************************************************************************)

\* What lookup returns for a value the codec decodes.
Found(a, value) ==
    IF a.strategy \in ByteStrategies THEN Some(value) ELSE Some(Ok(value))

\* C10 as stated: after an add that succeeds, on whatever message and with
\* whatever accepted value, lookup returns the value added.
C10_RoundTripAnyMessage ==
    (last.op = "add" /\ last.ret.ok) =>
       lookup_accessor(acc, packet) = Found(acc, last.arg)

\* C10 amended: after an add that succeeds, lookup returns the value added
\* when the message held no instance of the attribute's type code and, for
\* the concatenated octets, the buffer is not empty.  On a message that
\* held instances, lookup still returns what it returned before the add
\* (the concatenated octets: that followed by the buffer); the add of an
\* empty buffer to the concatenated octets leaves lookup as it was.
C10_RoundTrip ==
    (last.op = "add" /\ last.ret.ok) =>
       IF acc.strategy = "concat_octets"
       THEN lookup_accessor(acc, packet) =
               IF last.before = Absent
               THEN (IF last.arg = <<>> THEN Absent ELSE Some(last.arg))
               ELSE Some(last.before[1] \o last.arg)
       ELSE IF last.before = Absent
            THEN lookup_accessor(acc, packet) = Found(acc, last.arg)
            ELSE lookup_accessor(acc, packet) = last.before

C10_Witness ==
    /\ last.op = "add"
    /\ last.ret.ok
    /\ acc.strategy = "concat_octets"
    /\ Len(last.arg) = 507
    /\ last.before = Absent
    /\ last.held = 2
    /\ Len(packet) = 5
    /\ lookup_accessor(acc, packet) = Some(last.arg)

\* The instances a step appended to the message.
Appended == SubSeq(packet', Len(packet) + 1, Len(packet'))

\* ceil(L / CHUNK_SIZE).
CeilChunks(L) == (L + CHUNK_SIZE - 1) \div CHUNK_SIZE

\* C11: the add of the concatenated octets with a buffer of length L appends
\* ceil(L/253) instances of the attribute's type code (none when L = 0),
\* each payload non-empty and of at most 253 bytes, all but the last of 253
\* bytes, whose payloads in wire order make up the buffer; the instances the
\* message held stay where they were, before the appended ones.
C11_Step ==
    (adds' = adds + 1 /\ acc.strategy = "concat_octets") =>
       LET L == Len(last'.arg)
           n == Len(packet') - Len(packet)
       IN  /\ last'.ret.ok
           /\ n = CeilChunks(L)
           /\ (L = 0 => n = 0)
           /\ SubSeq(packet', 1, Len(packet)) = packet
           /\ \A j \in 1..n :
                 /\ Appended[j].typ = acc.typ
                 /\ Len(Appended[j].value) >= 1
                 /\ Len(Appended[j].value) <= 253
                 /\ (j < n => Len(Appended[j].value) = 253)
           /\ Concat([j \in 1..n |-> Appended[j].value]) = last'.arg

C11_ConcatChunking == [][C11_Step]_vars

C11_Witness ==
    /\ last.op = "add"
    /\ acc.strategy = "concat_octets"
    /\ Len(last.arg) = 254
    /\ last.held = 1
    /\ Len(packet) = 3
    /\ Len(packet[2].value) = 253
    /\ Len(packet[3].value) = 1

\* The payloads of the instances of a type code, end to end in wire order.
RECURSIVE Reassembled(_, _)
Reassembled(p, typ) ==
    IF p = <<>> THEN <<>>
    ELSE (IF Head(p).typ = typ THEN Head(p).value ELSE <<>>)
         \o Reassembled(Tail(p), typ)

\* The number of instances of a type code in a message.
Instances(p, typ) == Cardinality({ n \in DOMAIN p : p[n].typ = typ })

\* C12: the lookup of the concatenated octets is absent exactly when the
\* message holds no instance of the type code, and otherwise is the payloads
\* of all the instances of that type code, in wire order, end to end.
C12_ConcatLookup ==
    acc.strategy = "concat_octets" =>
       /\ (lookup_accessor(acc, packet) = Absent) <=>
             (Instances(packet, acc.typ) = 0)
       /\ Instances(packet, acc.typ) > 0 =>
             lookup_accessor(acc, packet) = Some(Reassembled(packet, acc.typ))

C12_Witness ==
    /\ acc.strategy = "concat_octets"
    /\ last.op = "lookup"
    /\ Len(packet) = 4
    /\ Instances(packet, acc.typ) = 3
    /\ packet[2].typ # acc.typ
    /\ packet[3].typ = acc.typ
    /\ last.ret # Absent
    /\ Len(last.ret[1]) = Len(packet[1].value) + 253 + 1

\* The length a declaration fixes: N of octets[N], 8 of ifid.
DeclaredLength(line) ==
    IF line.items[4] = "ifid" THEN IFID_LENGTH
    ELSE fixed_length_octets_re_captures(line.items[4])

\* The declarations acc was generated from.
DeclarationsOf(a) ==
    { d \in PacketLines \X {{}, {"Framed-Protocol"}} :
         Generates(d[1], d[2]) /\ AccessorFor(d[1], d[2]) = a }

\* C13: the add of a fixed-length octets attribute of length N (N of
\* octets[N], 8 of ifid) with a buffer of another length returns an error
\* that carries N and the length of the buffer and leaves the message as it
\* was; with a buffer of length N it succeeds and appends one instance that
\* holds the buffer.
C13_Step ==
    (adds' = adds + 1 /\ acc.strategy = "fixed_length_octets") =>
       \A d \in DeclarationsOf(acc) :
          LET N == DeclaredLength(d[1]) IN
          IF Len(last'.arg) # N
          THEN /\ ~last'.ret.ok
               /\ last'.ret.expected = N
               /\ last'.ret.actual = Len(last'.arg)
               /\ packet' = packet
          ELSE /\ last'.ret.ok
               /\ packet' = Append(packet,
                                [typ |-> acc.typ, kind |-> "bytes",
                                 value |-> last'.arg])

C13_FixedLengthValidation == [][C13_Step]_vars

C13_Witness ==
    /\ acc.strategy = "fixed_length_octets"
    /\ \E d \in DeclarationsOf(acc) : d[1].items[4] = "ifid"
    /\ adds = 2
    /\ last.op = "add"
    /\ ~last.ret.ok
    /\ last.ret.expected = 8
    /\ last.ret.actual = 2
    /\ Len(packet) = 1
    /\ Len(packet[1].value) = 8

(***************************************************************************)
(* Properties of the parser.                                               *)
(***************************************************************************)

\* The class each keyword names.
ClassOfKeyword ==
    [string |-> "String", octets |-> "Octets", ipaddr |-> "IpAddr",
     ipv4prefix |-> "Ipv4Prefix", ipv6addr |-> "Ipv6Addr",
     ipv6prefix |-> "Ipv6Prefix", ifid |-> "IfId", date |-> "Date",
     integer |-> "Integer", short |-> "Short", vsa |-> "VSA"]

\* The lengths the octets[N] tokens name.
LengthOfToken == [t \in {"octets[0]", "octets[2]", "octets[8]"} |->
                    IF t = "octets[0]" THEN 0 ELSE IF t = "octets[2]" THEN 2 ELSE 8]

\* The first line of the only dictionary of a run of one file, its wire-type
\* token and its modifiers.
DeclLine == fs[dict_file_paths[1]][1]
WireToken == DeclLine.items[4]
Modifiers ==
    IF Len(DeclLine.items) < 5 THEN <<>> ELSE split_comma(DeclLine.items[5])

\* The parse of the only dictionary has succeeded / has failed.
ParsedOk == Len(dict_file_paths) = 1 /\ pc = "parsed"
ParseFailed == Len(dict_file_paths) = 1 /\ pc = "aborted" /\ abort = "parse"

\* The parse failed with the invalid-type error and produced no declaration.
InvalidType ==
    /\ ParseFailed
    /\ radius_attributes = <<>>
    /\ ParseLine(DeclLine).kind = "err"
    /\ ParseLine(DeclLine).err = "invalid type has come"

\* The parse produced the declaration of a class and a length.
Declares(class, fixed) ==
    /\ ParsedOk
    /\ Len(radius_attributes) = 1
    /\ radius_attributes[1].value_type = class
    /\ radius_attributes[1].fixed_octets_length = fixed

\* The parse of the only dictionary is over, one way or the other.
ParseOver == ParsedOk \/ ParseFailed

\* C14 as stated: string with encrypt=1 is UserPassword, string with
\* encrypt=2 is TunnelPassword, string with neither is String; every other
\* keyword is its own class; octets[N] is Octets of length N; any other
\* token is the invalid-type error.
C14_ValueClassAsStated ==
    ParseOver =>
       /\ (WireToken = "string" /\ "encrypt=1" \in Range(Modifiers)) =>
             Declares("UserPassword", NoLength)
       /\ (WireToken = "string" /\ "encrypt=2" \in Range(Modifiers)) =>
             Declares("TunnelPassword", NoLength)
       /\ (WireToken = "string"
             /\ Range(Modifiers) \cap {"encrypt=1", "encrypt=2"} = {}) =>
             Declares("String", NoLength)
       /\ (WireToken \in DOMAIN ClassOfKeyword \ {"string"}) =>
             Declares(ClassOfKeyword[WireToken], NoLength)
       /\ (WireToken \in {"octets[0]", "octets[2]", "octets[8]"}) =>
             Declares("Octets", SomeLength(LengthOfToken[WireToken]))
       /\ (WireToken \notin DOMAIN ClassOfKeyword
                            \cup {"octets[0]", "octets[2]", "octets[8]"}) =>
             InvalidType

\* The encryption modifiers of the list, in order.
EncryptModifiers ==
    SelectSeq(Modifiers, LAMBDA o : o \in {"encrypt=1", "encrypt=2"})

\* C14 amended: with string, the LAST encryption modifier of the list
\* decides (encrypt=1: UserPassword, encrypt=2: TunnelPassword), and string
\* with none is String; every other keyword is its own class whatever the
\* modifiers; octets[N] with N that fits the machine word is Octets of
\* length N; octets[N] with N that does not fit ends the run in a panic,
\* not in the invalid-type error; any other token is the invalid-type error
\* and yields no declaration.
C14_ValueClass ==
    ParseOver =>
       /\ (WireToken = "string" /\ EncryptModifiers # <<>>) =>
             Declares(IF EncryptModifiers[Len(EncryptModifiers)] = "encrypt=1"
                      THEN "UserPassword" ELSE "TunnelPassword", NoLength)
       /\ (WireToken = "string" /\ EncryptModifiers = <<>>) =>
             Declares("String", NoLength)
       /\ (WireToken \in DOMAIN ClassOfKeyword \ {"string"}) =>
             Declares(ClassOfKeyword[WireToken], NoLength)
       /\ (WireToken \in {"octets[0]", "octets[2]", "octets[8]"}) =>
             Declares("Octets", SomeLength(LengthOfToken[WireToken]))
       /\ (WireToken = "octets[18446744073709551616]") =>
             /\ ParseFailed
             /\ radius_attributes = <<>>
             /\ ParseLine(DeclLine).kind = "panic"
       /\ (WireToken \in {"octets[]", "text"}) => InvalidType

C14_Witness ==
    /\ ParsedOk
    /\ WireToken = "string"
    /\ Modifiers = <<"encrypt=1", "encrypt=2">>
    /\ Declares("TunnelPassword", NoLength)

\* The accessors written so far for the file at position j, and the
\* ATTRIBUTE lines of that file.
AccessorsOf(j) == Items(CodeOf(j), "accessor")
DeclsOf(j) == KindLines(LinesAt(j), ATTRIBUTE_KIND)

\* An ATTRIBUTE line carries has_tag.
Tagged(line) ==
    Len(line.items) >= 5 /\ HAS_TAG_TYPE_OPT \in Range(split_comma(line.items[5]))

\* C15: the accessors of an Integer attribute are typed against the
\* attribute's alias exactly when the same file has a VALUE line that names
\* the attribute, and against u32 otherwise; the tagged variant is chosen
\* exactly when has_tag is set; the accessors of the other classes are what
\* they are without VALUE lines.
C15_EnumerationTyping ==
    \A j \in 1..Len(dict_file_paths) :
       HasCode(j) =>
          \A m \in DOMAIN AccessorsOf(j) :
             LET a == AccessorsOf(j)[m]
                 d == DeclsOf(j)[m]
                 named == d.items[2] \in ValueNames(LinesAt(j))
             IN  /\ a.attr = d.items[2]
                 /\ d.items[4] = "integer" =>
                       /\ a.value_type = IF named THEN to_pascal_case(d.items[2])
                                         ELSE "u32"
                       /\ a.strategy =
                            IF named
                            THEN (IF Tagged(d) THEN "tagged_value_defined_integer"
                                  ELSE "value_defined_integer")
                            ELSE (IF Tagged(d) THEN "tagged_integer" ELSE "integer")
                 /\ d.items[4] = "string" =>
                       /\ a.value_type = None
                       /\ a.strategy = IF Tagged(d) THEN "tagged_string" ELSE "string"
                 /\ d.items[4] = "short" =>
                       /\ a.value_type = None
                       /\ a.strategy = "short"

\* Two files: the first has only a VALUE line that names Framed-Protocol,
\* the second declares Framed-Protocol and Tunnel-Type as Integer with a
\* VALUE line that names Tunnel-Type.
C15_Witness ==
    /\ pc = "done"
    /\ Len(dict_file_paths) = 2
    /\ DeclsOf(1) = <<>>
    /\ "Framed-Protocol" \in ValueNames(LinesAt(1))
    /\ HasCode(2)
    /\ Len(AccessorsOf(2)) = 2
    /\ AccessorsOf(2)[1].attr = "Framed-Protocol"
    /\ AccessorsOf(2)[1].value_type = "u32"
    /\ AccessorsOf(2)[2].value_type = "TunnelType"

\* A line that is empty, holds only whitespace, or whose first non-space
\* character is '#'.
Discardable(line) == line.items = <<>> \/ line.items[1] \in HashTokens

\* The lines of the file being processed, without the discardable ones.
KeptLines == SelectSeq(fs[dict_file_paths[k]], LAMBDA l : ~Discardable(l))

\* C16: a line that is empty, holds only whitespace, or has '#' as its first
\* non-space character yields no record and never makes the parse fail: the
\* parse of a file ends as the parse of the file without those lines does.
C16_LineDiscarding ==
    /\ pc = "parsed" =>
          /\ parse_dict_file(KeptLines).ok
          /\ radius_attributes = parse_dict_file(KeptLines).attrs
          /\ radius_attribute_to_values_map = parse_dict_file(KeptLines).values
    /\ (pc = "aborted" /\ abort = "parse") => ~parse_dict_file(KeptLines).ok

\* The file being processed has been parsed and its records are in place.
RecordsInPlace == pc \in {"parsed", "header", "attributes", "insert", "close"}

\* C17: after a successful parse the attribute sequence holds one
\* declaration per ATTRIBUTE line, in line order, and the group of every
\* attribute name holds one record per VALUE line that names it, in line
\* order; every line that is not discarded is of one of the two kinds, and
\* declarations that share a name or a type code are kept apart.
C17_OneRecordPerLine ==
    RecordsInPlace =>
       LET lines == fs[dict_file_paths[k]]
           A == KindLines(lines, ATTRIBUTE_KIND)
           V == KindLines(lines, VALUE_KIND)
           skipped == SelectSeq(lines, LAMBDA l : line_filter_re_is_match(l))
       IN  /\ Len(A) + Len(V) + Len(skipped) = Len(lines)
           /\ Len(radius_attributes) = Len(A)
           /\ \A n \in DOMAIN A :
                 /\ radius_attributes[n].name = A[n].items[2]
                 /\ radius_attributes[n].typ = DecimalValue(A[n].items[3])
           /\ DOMAIN radius_attribute_to_values_map = ValueNames(lines)
           /\ \A X \in ValueNames(lines) :
                 LET VX == ValueLinesOf(lines, X)
                     group == radius_attribute_to_values_map[X]
                 IN  /\ Len(group) = Len(VX)
                     /\ \A n \in DOMAIN VX :
                           /\ group[n].name = VX[n].items[3]
                           /\ group[n].value = DecimalValue(VX[n].items[4])

\* Values of two attributes interleaved, those of one attribute not in
\* alphabetical order.
C17_Witness ==
    /\ pc = "parsed"
    /\ Len(fs[dict_file_paths[k]]) = 3
    /\ radius_attributes = <<>>
    /\ DOMAIN radius_attribute_to_values_map = {"Framed-Protocol", "Tunnel-Type"}
    /\ radius_attribute_to_values_map["Framed-Protocol"] =
          <<[name |-> "SLIP", value |-> 2], [name |-> "PPP", value |-> 1]>>
    /\ fs[dict_file_paths[k]][2].items[2] = "Tunnel-Type"

\* The tokens of the form octets[<positive integer>].
PositiveOctetsTokens ==
    {"octets[2]", "octets[8]", "octets[18446744073709551616]"}

\* C18: the fixed length of every declaration the parser produces is absent
\* or at least 1, and is present only for a token octets[N]; a token that is
\* neither a keyword nor octets[<positive integer>] is the invalid-type
\* error.
C18_FixedLengthPositive ==
    ParseOver =>
       /\ \A n \in DOMAIN radius_attributes :
             LET fixed == radius_attributes[n].fixed_octets_length IN
             /\ fixed = NoLength \/ fixed[1] >= 1
             /\ fixed # NoLength =>
                   WireToken \in PositiveOctetsTokens \cup {"octets[0]"}
       /\ (WireToken \notin DOMAIN ClassOfKeyword \cup PositiveOctetsTokens) =>
             InvalidType

\* C19: no artifact is open while a file is validated or parsed or after the
\* run; the open artifact is that of the file being processed, which has
\* parsed; when the parse of the next file is about to begin the artifact of
\* the file before it is on disk, complete; an artifact is opened only from
\* the state in which the file has parsed and none is open; the symbol table
\* and the list of identifiers change only after the constants of the file
\* have all been written.
C19_State ==
    /\ pc \in {"start", "loop", "parsed", "done"} => w = NoWriter
    /\ w # NoWriter =>
          /\ w.src = k
          /\ parse_dict_file(fs[dict_file_paths[k]]).ok
    /\ (pc = "loop" /\ k > 1) =>
          LET id == extension(dict_file_paths[k - 1]) IN
          /\ id \in DOMAIN outdir
          /\ outdir[id].src = k - 1
          /\ Complete(outdir[id])

C19_Step ==
    /\ (w' # NoWriter /\ w'.src # w.src) =>
          /\ w = NoWriter
          /\ pc = "parsed"
          /\ parse_dict_file(fs[dict_file_paths[k]]).ok
          /\ radius_attributes = parse_dict_file(fs[dict_file_paths[k]]).attrs
    /\ (attribute_name_to_rfc_name' # attribute_name_to_rfc_name
          \/ rfc_names' # rfc_names) =>
          /\ w.src = k
          /\ Len(Items(w.code, "const")) =
                Len(KindLines(LinesAt(k), VALUE_KIND))
          /\ Len(Items(w.code, "common")) =
                Len(KindLines(LinesAt(k), ATTRIBUTE_KIND))

C19_ScopedArtifacts == []C19_State /\ [][C19_Step]_vars

\* The third file has parsed: the artifacts of the first two are on disk,
\* complete, none is open, and the symbol table holds the names of the
\* first two.
C19_Witness ==
    /\ pc = "parsed"
    /\ k = 3
    /\ w = NoWriter
    /\ Cardinality(DOMAIN outdir) = 2
    /\ \A id \in DOMAIN outdir : Complete(outdir[id]) /\ outdir[id].code # <<>>
    /\ Len(rfc_names) = 2
    /\ DOMAIN attribute_name_to_rfc_name = {"Framed-Protocol", "Tunnel-Type"}

\* The input files have identifiers that differ from one another.
DistinctIdentifiers ==
    \A m, n \in DOMAIN dict_file_paths :
       m # n => extension(dict_file_paths[m]) # extension(dict_file_paths[n])

\* An artifact defines an alias.
DefinesAlias(artifact, type_name) ==
    \E n \in DOMAIN artifact.code :
       /\ artifact.code[n].item = "type"
       /\ artifact.code[n].type_name = type_name

\* C20: whenever an artifact holds a constant typed against an alias
\* qualified by another file's identifier, the artifact of that identifier
\* defines the alias (in runs whose files have distinct identifiers).
C20_NoDanglingQualifiedAlias ==
    (pc = "done" /\ DistinctIdentifiers) =>
       \A b \in DOMAIN outdir :
          \A n \in DOMAIN outdir[b].code :
             LET c == outdir[b].code[n] IN
             (c.item = "const" /\ c.qualifier # None) =>
                /\ c.qualifier \in DOMAIN outdir
                /\ DefinesAlias(outdir[c.qualifier], c.type_name)

\* C21: whenever an artifact holds Integer accessors typed against an
\* attribute's unqualified alias, the same artifact defines that alias (in
\* runs whose files have distinct identifiers).
C21_NoUndefinedUnqualifiedAlias ==
    (pc = "done" /\ DistinctIdentifiers) =>
       \A b \in DOMAIN outdir :
          \A n \in DOMAIN outdir[b].code :
             LET a == outdir[b].code[n] IN
             (a.item = "accessor"
                /\ a.strategy \in {"value_defined_integer",
                                   "tagged_value_defined_integer"}) =>
                DefinesAlias(outdir[b], a.value_type)

====
